---- MODULE Spec2Model ----
(***************************************************************************)
(* A model of src/fenwick_tree.cc: class FenwickTree, a binary indexed     *)
(* tree over a vector<int> tree_ of size_ + 1 slots.                       *)
(*                                                                         *)
(* Two specifications are given over the same variables and the same loop  *)
(* bodies:                                                                 *)
(*   Spec      every call is one action (the whole handler), and the calls *)
(*             are those of the documented contract: a capacity >= 0 and   *)
(*             indices in [0, size_).                                      *)
(*   SpecSteps every loop iteration is one action, and the arguments are   *)
(*             arbitrary integers: the code validates nothing, so this is  *)
(*             where the unchecked paths (position 0, positions outside    *)
(*             the vector) are followed.                                   *)
(***************************************************************************)
EXTENDS Integers, Sequences, FiniteSets

\* Bounds of the model.
MaxSize == 4      \* largest capacity constructed
MaxDelta == 1     \* largest delta passed to update
MaxOps == 3       \* update calls per store
MaxStepOps == 2   \* SpecSteps: update calls per store
MaxNeg == 2       \* SpecSteps: the most negative argument is -MaxNeg
MaxIters == 6     \* SpecSteps: cap on the iterations of one update loop

VARIABLES
    size_,      \* FenwickTree::size_
    tree_,      \* FenwickTree::tree_, a function on 0..size_
    pc,         \* "new", "idle", "update", "query", "threw", "crashed"
    index,      \* the running call's local `index` (SpecSteps)
    delta,      \* the running update's parameter `delta` (SpecSteps)
    sum,        \* the running query's local `sum` (SpecSteps)
    iters,      \* iterations done by the running loop (SpecSteps)
    call,       \* the last call made: [op, index, delta], arguments as passed
    ret,        \* the value the last call returned (0 for a void call)
    outcome,    \* how the last call ended: "none", "returned", "length_error", "crashed"
    log         \* history: the <<index, delta>> of every update call, in order

vars == <<size_, tree_, pc, index, delta, sum, iters, call, ret, outcome, log>>

locals == <<index, delta, sum, iters>>

Deltas == {-1} \cup (1..MaxDelta)

\* index & (-index) on two's-complement ints: the lowest set bit, 0 for 0.
RECURSIVE LowBit(_)
LowBit(i) ==
    IF i = 0 THEN 0
    ELSE IF i % 2 = 1 THEN 1
    ELSE 2 * LowBit(i \div 2)

\* vector<int>(n, 0): n < 0 converts to a size_t above max_size().
VectorFits(n) == n >= 0

\* FenwickTree(int size) : size_(size), tree_(size + 1, 0)
FenwickTreeOffByOne(size) == [size_ |-> size, tree_ |-> [i \in 0..(size - 1) |-> 0]]

FenwickTree(size) == [size_ |-> size, tree_ |-> [i \in 0..size |-> 0]]

\* tree_[index] += delta;
AddAtOverwrites(tree, p, d) == [tree EXCEPT ![p] = d]

AddAt(tree, p, d) == [tree EXCEPT ![p] = @ + d]

\* index += index & (-index);
NextUpByOne(p) == p + 1

NextUp(p) == p + LowBit(p)

\* index -= index & (-index);
NextDown(p) == p - LowBit(p)

\* while (index <= size_) { tree_[index] += delta; index += index & (-index); }
RECURSIVE UpdateLoopStrict(_, _, _, _)
UpdateLoopStrict(tree, size, p, d) ==
    IF p < size
    THEN UpdateLoopStrict([tree EXCEPT ![p] = @ + d], size, p + LowBit(p), d)
    ELSE tree

RECURSIVE UpdateLoop(_, _, _, _)
UpdateLoop(tree, size, p, d) ==
    IF p <= size
    THEN UpdateLoop(AddAt(tree, p, d), size, NextUp(p), d)
    ELSE tree

\* void update(int index, int delta): index++, then the loop.
update(tree, size, i, d) == UpdateLoop(tree, size, i + 1, d)

\* while (index > 0) { sum += tree_[index]; index -= index & (-index); }
RECURSIVE QueryLoop(_, _, _)
QueryLoop(tree, p, s) ==
    IF p > 0
    THEN QueryLoop(tree, NextDown(p), s + tree[p])
    ELSE s

\* int query(int index): index++, sum = 0, then the loop.
query(tree, i) == QueryLoop(tree, i + 1, 0)

NoCall == [op |-> "none", index |-> 0, delta |-> 0]

Init ==
    /\ size_ = 0
    /\ tree_ = << >>
    /\ pc = "new"
    /\ index = 0
    /\ delta = 0
    /\ sum = 0
    /\ iters = 0
    /\ call = NoCall
    /\ ret = 0
    /\ outcome = "none"
    /\ log = << >>

\* FenwickTree ft(size);
Construct(size) ==
    /\ pc = "new"
    /\ call' = [op |-> "construct", index |-> size, delta |-> 0]
    /\ IF VectorFits(size + 1)
       THEN /\ size_' = FenwickTree(size).size_
            /\ tree_' = FenwickTree(size).tree_
            /\ pc' = "idle"
            /\ outcome' = "returned"
       ELSE /\ pc' = "threw"
            /\ outcome' = "length_error"
            /\ UNCHANGED <<size_, tree_>>
    /\ UNCHANGED <<locals, ret, log>>

\* ft.update(i, d), the whole call.
CallUpdate(i, d) ==
    /\ pc = "idle"
    /\ Len(log) < MaxOps
    /\ call' = [op |-> "update", index |-> i, delta |-> d]
    /\ tree_' = update(tree_, size_, i, d)
    /\ outcome' = "returned"
    /\ log' = Append(log, <<i, d>>)
    /\ ret' = 0
    /\ UNCHANGED <<size_, pc, locals>>

\* ft.query(i), the whole call, with a stray write in place of the read.
CallQueryClobbers(i) ==
    /\ pc = "idle"
    /\ call' = [op |-> "query", index |-> i, delta |-> 0]
    /\ ret' = query(tree_, i)
    /\ tree_' = [tree_ EXCEPT ![i + 1] = query(tree_, i)]
    /\ outcome' = "returned"
    /\ UNCHANGED <<size_, pc, locals, log>>

\* ft.query(i), the whole call.
CallQuery(i) ==
    /\ pc = "idle"
    /\ call' = [op |-> "query", index |-> i, delta |-> 0]
    /\ ret' = query(tree_, i)
    /\ outcome' = "returned"
    /\ UNCHANGED <<size_, tree_, pc, locals, log>>

\* The indices the contract allows: [0, size_).
InRange == 0..(size_ - 1)

Next ==
    \/ \E size \in 0..MaxSize : Construct(size)
    \/ \E i \in InRange, d \in Deltas : CallUpdate(i, d)
    \/ \E i \in InRange : CallQuery(i)

Spec == Init /\ [][Next]_vars


(***************************************************************************)
(* What the history says the store should hold.                            *)
(***************************************************************************)

\* The sum of d over the entries <<j, d>> of l with j <= k.
RECURSIVE DeltasUpTo(_, _)
DeltasUpTo(l, k) ==
    IF l = << >> THEN 0
    ELSE (IF Head(l)[1] <= k THEN Head(l)[2] ELSE 0) + DeltasUpTo(Tail(l), k)

\* Logical element j: the net of the deltas applied to index j.
RECURSIVE DeltasAt(_, _)
DeltasAt(l, j) ==
    IF l = << >> THEN 0
    ELSE (IF Head(l)[1] = j THEN Head(l)[2] ELSE 0) + DeltasAt(Tail(l), j)

\* The sum of the logical elements with 0-based indices lo..hi that exist.
RECURSIVE ElemSum(_, _)
ElemSum(lo, hi) ==
    IF lo > hi THEN 0
    ELSE (IF lo \in InRange THEN DeltasAt(log, lo) ELSE 0) + ElemSum(lo + 1, hi)

(***************************************************************************)
(* Claims checked under Spec.                                              *)
(***************************************************************************)

\* C1 (additivity): after any sequence of in-range updates on a fresh store,
\* query(k) is, for every k in [0, size_), the sum of the deltas of all prior
\* update(j, delta) with j <= k, and a query call returns that value.
C1_Additivity ==
    pc = "idle" =>
        /\ \A k \in InRange : query(tree_, k) = DeltasUpTo(log, k)
        /\ (call.op = "query" => ret = DeltasUpTo(log, call.index))

\* Two updates of one index accumulated and a query of it returned their sum.
C1_Witness ==
    /\ pc = "idle"
    /\ Len(log) >= 2
    /\ log[1][1] = log[2][1]
    /\ call.op = "query"
    /\ call.index = log[1][1]
    /\ Len(log) = 2
    /\ ret = log[1][2] + log[2][2]
    /\ ret > MaxDelta

\* C2 (zero state): a store constructed with capacity N >= 0 has size_ = N and
\* exactly N + 1 slots, all zero, and before any update every query is 0.
C2_ZeroState ==
    (pc = "idle" /\ log = << >>) =>
        /\ DOMAIN tree_ = 0..size_
        /\ Cardinality(DOMAIN tree_) = size_ + 1
        /\ \A i \in DOMAIN tree_ : tree_[i] = 0
        /\ (call.op = "construct" => size_ = call.index)
        /\ \A k \in InRange : query(tree_, k) = 0
        /\ (call.op = "query" => ret = 0)

\* A fresh store of capacity >= 3 was queried at its last index.
C2_Witness ==
    /\ pc = "idle"
    /\ log = << >>
    /\ size_ >= 3
    /\ call.op = "query"
    /\ call.index = size_ - 1
    /\ ret = 0

\* C3 (locality): one call update(j, delta) leaves query(k) unchanged for
\* every k < j and raises it by exactly delta for every in-range k >= j.
C3_Locality ==
    [][\A j \in InRange, d \in Deltas :
          CallUpdate(j, d) =>
              \A k \in InRange :
                  query(tree_', k) = query(tree_, k) + (IF k >= j THEN d ELSE 0)]_vars

\* An update of an inner index of a store that already held two updates.
C3_Witness ==
    /\ pc = "idle"
    /\ call.op = "update"
    /\ Len(log) = 3
    /\ call.index >= 1
    /\ call.index < size_ - 1
    /\ query(tree_, call.index - 1) # 0
    /\ query(tree_, call.index) # query(tree_, call.index - 1)

\* C8 (query is a pure read): a call query(i) leaves size_ and every slot as
\* they were, so every query, asked again or in another order, returns what
\* it would have returned before the call; the call's own result is the value
\* a repeated query(i) returns.
C8_QueryPure ==
    [][(\E i \in InRange : CallQuery(i)) =>
          /\ size_' = size_
          /\ tree_' = tree_
          /\ \A k \in InRange : query(tree_', k) = query(tree_, k)
          /\ ret' = query(tree_', call'.index)]_vars

\* A query of a non-empty store returned a non-zero sum of two elements.
C8_Witness ==
    /\ pc = "idle"
    /\ call.op = "query"
    /\ Len(log) >= 2
    /\ log[1][1] # log[2][1]
    /\ call.index >= log[1][1]
    /\ call.index >= log[2][1]
    /\ ret = log[1][2] + log[2][2]
    /\ ret # 0

\* C9 as stated: tree_[i] is the sum of the logical elements whose 0-based
\* indices j satisfy i - lowbit(i) < j <= i.
C9_AsStated ==
    pc = "idle" =>
        \A i \in 1..size_ : tree_[i] = ElemSum(i - LowBit(i) + 1, i)

\* C9 (representation invariant, amended): tree_[i] is the sum of the logical
\* elements whose 1-based positions lie in (i - lowbit(i), i], that is whose
\* 0-based indices j satisfy i - lowbit(i) <= j < i.
C9_Representation ==
    pc = "idle" =>
        \A i \in 1..size_ : tree_[i] = ElemSum(i - LowBit(i), i - 1)

\* Slots 2 and 4 of a store hold different non-zero sums of several elements.
C9_Witness ==
    /\ pc = "idle"
    /\ size_ >= 4
    /\ Len(log) = 3
    /\ tree_[2] # 0
    /\ tree_[4] # 0
    /\ tree_[4] # tree_[2]
    /\ tree_[2] # tree_[1]


(***************************************************************************)
(* The same code, one loop iteration per action, arguments unvalidated.    *)
(***************************************************************************)

\* The arguments tried: from -MaxNeg up to the largest capacity (one past its
\* last valid index).
ArgIndices == (0 - MaxNeg)..MaxSize

\* What a read outside the vector may yield (an indeterminate int).
Garbage == {-1, 0, 1}

\* update: index++ on entry.
EnterUpdate(i, d) ==
    /\ pc = "idle"
    /\ Len(log) < MaxStepOps
    /\ pc' = "update"
    /\ index' = i + 1
    /\ delta' = d
    /\ iters' = 0
    /\ call' = [op |-> "update", index |-> i, delta |-> d]
    /\ outcome' = "none"
    /\ log' = Append(log, <<i, d>>)
    /\ ret' = 0
    /\ UNCHANGED <<size_, tree_, sum>>

\* update: one iteration whose slot tree_[index] exists.
UpdateIter ==
    /\ pc = "update"
    /\ index <= size_
    /\ index \in DOMAIN tree_
    /\ iters < MaxIters
    /\ tree_' = AddAt(tree_, index, delta)
    /\ index' = NextUp(index)
    /\ iters' = iters + 1
    /\ UNCHANGED <<size_, pc, delta, sum, call, ret, outcome, log>>

\* update: one iteration whose slot lies before the vector (index < 0). The
\* write is undefined behaviour: it lands outside the vector's storage and the
\* loop goes on, or the process is killed.
UpdateIterOutside ==
    /\ pc = "update"
    /\ index <= size_
    /\ index \notin DOMAIN tree_
    /\ iters < MaxIters
    /\ \/ /\ index' = NextUp(index)
          /\ iters' = iters + 1
          /\ UNCHANGED <<pc, outcome>>
       \/ /\ pc' = "crashed"
          /\ outcome' = "crashed"
          /\ UNCHANGED <<index, iters>>
    /\ UNCHANGED <<size_, tree_, delta, sum, call, ret, log>>

\* update: the loop condition fails and the call returns; its locals end.
UpdateExit ==
    /\ pc = "update"
    /\ ~(index <= size_)
    /\ pc' = "idle"
    /\ outcome' = "returned"
    /\ index' = 0
    /\ delta' = 0
    /\ iters' = 0
    /\ UNCHANGED <<size_, tree_, sum, call, ret, log>>

\* query: index++ and sum = 0 on entry.
EnterQuery(i) ==
    /\ pc = "idle"
    /\ pc' = "query"
    /\ index' = i + 1
    /\ sum' = 0
    /\ call' = [op |-> "query", index |-> i, delta |-> 0]
    /\ outcome' = "none"
    /\ UNCHANGED <<size_, tree_, delta, iters, ret, log>>

\* query: one iteration whose slot tree_[index] exists.
QueryIter ==
    /\ pc = "query"
    /\ index > 0
    /\ index \in DOMAIN tree_
    /\ sum' = sum + tree_[index]
    /\ index' = NextDown(index)
    /\ UNCHANGED <<size_, tree_, pc, delta, iters, call, ret, outcome, log>>

\* query: one iteration whose slot lies past the vector (index > size_). The
\* read is undefined behaviour: it yields some int, or the process is killed.
QueryIterOutside ==
    /\ pc = "query"
    /\ index > 0
    /\ index \notin DOMAIN tree_
    /\ \/ /\ \E v \in Garbage : sum' = sum + v
          /\ index' = NextDown(index)
          /\ UNCHANGED <<pc, outcome>>
       \/ /\ pc' = "crashed"
          /\ outcome' = "crashed"
          /\ UNCHANGED <<index, sum>>
    /\ UNCHANGED <<size_, tree_, delta, iters, call, ret, log>>

\* query: the loop condition fails and the call returns sum; its locals end.
QueryExit ==
    /\ pc = "query"
    /\ ~(index > 0)
    /\ ret' = sum
    /\ pc' = "idle"
    /\ outcome' = "returned"
    /\ index' = 0
    /\ sum' = 0
    /\ UNCHANGED <<size_, tree_, delta, iters, call, log>>

NextSteps ==
    \/ \E size \in (0 - MaxNeg)..MaxSize : Construct(size)
    \/ \E i \in ArgIndices, d \in Deltas : EnterUpdate(i, d)
    \/ UpdateIter
    \/ UpdateIterOutside
    \/ UpdateExit
    \/ \E i \in ArgIndices : EnterQuery(i)
    \/ QueryIter
    \/ QueryIterOutside
    \/ QueryExit

SpecSteps == Init /\ [][NextSteps]_vars

(***************************************************************************)
(* Claims checked under SpecSteps.                                         *)
(***************************************************************************)

\* C4 (range rejection): a finished update or query call whose index is
\* outside [0, size_) has failed with IndexOutOfRange.
C4_RangeRejection ==
    (/\ pc = "idle"
     /\ call.op \in {"update", "query"}
     /\ call.index \notin InRange)
        => outcome = "IndexOutOfRange"

\* C5 (all-or-nothing updates): no step of an update call whose index is
\* outside [0, size_) changes any slot of tree_.
C5_AllOrNothing ==
    [][(/\ pc = "update"
        /\ call.index \notin InRange)
           => tree_' = tree_]_vars

\* C6 (construction): a negative capacity is rejected with InvalidArgument and
\* leaves no store; a capacity >= 0 always yields one.
C6_NegativeCapacityRejected ==
    call.op = "construct" =>
        IF call.index < 0
        THEN pc = "threw" /\ outcome = "InvalidArgument"
        ELSE pc = "idle" /\ outcome = "returned"

\* C7 (termination): on every iteration the update loop's position strictly
\* increases and the query loop's position strictly decreases, whatever the
\* argument.
C7_LoopsProgress ==
    [][/\ (pc = "update" /\ pc' = "update") => index' > index
       /\ (pc = "query" /\ pc' = "query") => index' < index]_vars

\* C10 (sentinel and size): whatever calls were made, tree_ has exactly
\* size_ + 1 slots and slot 0 is 0.
C10_SentinelAndSize ==
    pc \notin {"new", "threw"} =>
        /\ DOMAIN tree_ = 0..size_
        /\ Cardinality(DOMAIN tree_) = size_ + 1
        /\ (0 \in DOMAIN tree_ => tree_[0] = 0)

====
